---- MODULE Spec2Model ----
(***************************************************************************)
(* Model of src/voice_assistant.py: the main loop, process_command and its *)
(* handlers, the notes file and the reminder timers.                       *)
(* Strings are TLA+ strings handled as character sequences, so that the    *)
(* substring tests, replace(), strip(), split() and int() of the code are  *)
(* computed and not assumed.                                               *)
(***************************************************************************)
EXTENDS Integers, Sequences, FiniteSets, TLC

\* ------------------------------------------------------------------ bounds
\* Largest number of notes the notes file may hold before "note" commands
\* are no longer offered to the model.
MaxNotes == 2
\* Largest number of reminder timers created in one run.
MaxReminders == 1

\* ------------------------------------------------- python string helpers
Char(s, i) == SubSeq(s, i, i)

\* python: sub in s
Contains(s, sub) ==
    \E i \in 1..(Len(s) - Len(sub) + 1) : SubSeq(s, i, i + Len(sub) - 1) = sub

\* python: s.startswith(p)
StartsWith(s, p) == Len(s) >= Len(p) /\ SubSeq(s, 1, Len(p)) = p

UpperChars == "ABCDEFGHIJKLMNOPQRSTUVWXYZ"
LowerChars == "abcdefghijklmnopqrstuvwxyz"

LowerChar(c) ==
    IF \E i \in 1..Len(UpperChars) : Char(UpperChars, i) = c
    THEN Char(LowerChars, CHOOSE i \in 1..Len(UpperChars) : Char(UpperChars, i) = c)
    ELSE c

\* python: s.lower()
RECURSIVE Lower(_)
Lower(s) == IF s = "" THEN "" ELSE LowerChar(Char(s, 1)) \o Lower(SubSeq(s, 2, Len(s)))

\* python: s.lstrip() / s.rstrip() / s.strip() (the only whitespace the
\* recognizer produces is the space)
RECURSIVE LStrip(_)
LStrip(s) == IF s # "" /\ Char(s, 1) = " " THEN LStrip(SubSeq(s, 2, Len(s))) ELSE s

RECURSIVE RStrip(_)
RStrip(s) == IF s # "" /\ Char(s, Len(s)) = " " THEN RStrip(SubSeq(s, 1, Len(s) - 1)) ELSE s

Strip(s) == RStrip(LStrip(s))

\* python: s.replace(old, ""), every non-overlapping occurrence, left to right
RECURSIVE Remove(_, _)
Remove(s, old) ==
    IF Len(s) < Len(old) THEN s
    ELSE IF SubSeq(s, 1, Len(old)) = old THEN Remove(SubSeq(s, Len(old) + 1, Len(s)), old)
    ELSE Char(s, 1) \o Remove(SubSeq(s, 2, Len(s)), old)

\* python: s.split() : the maximal runs of non-space characters, in order
RECURSIVE SplitAcc(_, _, _)
SplitAcc(s, cur, acc) ==
    IF s = "" THEN (IF cur = "" THEN acc ELSE Append(acc, cur))
    ELSE IF Char(s, 1) = " "
         THEN SplitAcc(SubSeq(s, 2, Len(s)), "", IF cur = "" THEN acc ELSE Append(acc, cur))
         ELSE SplitAcc(SubSeq(s, 2, Len(s)), cur \o Char(s, 1), acc)

Split(s) == SplitAcc(s, "", <<>>)

\* python: s.split(sep) for a one-character sep: empty pieces are kept
RECURSIVE SplitOnAcc(_, _, _, _)
SplitOnAcc(s, sep, cur, acc) ==
    IF s = "" THEN Append(acc, cur)
    ELSE IF Char(s, 1) = sep
         THEN SplitOnAcc(SubSeq(s, 2, Len(s)), sep, "", Append(acc, cur))
         ELSE SplitOnAcc(SubSeq(s, 2, Len(s)), sep, cur \o Char(s, 1), acc)

SplitOn(s, sep) == SplitOnAcc(s, sep, "", <<>>)

\* python: sep.join(parts)
RECURSIVE Join(_, _)
Join(parts, sep) ==
    IF parts = <<>> THEN ""
    ELSE IF Len(parts) = 1 THEN parts[1]
    ELSE parts[1] \o sep \o Join(Tail(parts), sep)

Digits == "0123456789"

IsDigit(c) == \E i \in 1..Len(Digits) : Char(Digits, i) = c

DigitVal(c) == (CHOOSE i \in 1..Len(Digits) : Char(Digits, i) = c) - 1

AllDigits(s) == s # "" /\ \A i \in 1..Len(s) : IsDigit(Char(s, i))

\* python: int(token) succeeds (an optional sign, then decimal digits)
IsInt(token) ==
    IF token # "" /\ Char(token, 1) \in {"+", "-"}
    THEN AllDigits(SubSeq(token, 2, Len(token)))
    ELSE AllDigits(token)

RECURSIVE DigitsVal(_, _)
DigitsVal(s, acc) ==
    IF s = "" THEN acc ELSE DigitsVal(SubSeq(s, 2, Len(s)), 10 * acc + DigitVal(Char(s, 1)))

\* python: the value of int(token), for a token with IsInt(token)
IntVal(token) ==
    IF Char(token, 1) = "-" THEN 0 - DigitsVal(SubSeq(token, 2, Len(token)), 0)
    ELSE IF Char(token, 1) = "+" THEN DigitsVal(SubSeq(token, 2, Len(token)), 0)
    ELSE DigitsVal(token, 0)

SafeChars == "abcdefghijklmnopqrstuvwxyzABCDEFGHIJKLMNOPQRSTUVWXYZ0123456789_.-~"

QuoteChar(c) ==
    IF c = " " THEN "+"
    ELSE IF \E i \in 1..Len(SafeChars) : Char(SafeChars, i) = c THEN c
    ELSE IF c = "'" THEN "%27"
    ELSE IF c = "?" THEN "%3F"
    ELSE "%2B"

\* urllib.parse.quote_plus(s)
RECURSIVE quote_plus(_)
quote_plus(s) == IF s = "" THEN "" ELSE QuoteChar(Char(s, 1)) \o quote_plus(SubSeq(s, 2, Len(s)))

\* ------------------------------------------------------------ the inputs
\* What the recognizer returns at the main loop (recognize_google's text).
MainUtterances ==
    { "Goodbye", "please exit now", "stop writing notes",
      "wikipedia", "Wikipedia Ada Lovelace",
      "open youtube", "open example.com", "open notepad", "open the open source",
      "search for rust programming", "search for", "search research papers", "google cats",
      "what time is it", "note the time", "what is the date",
      "take note", "remind me", "take a photo",
      "who is ada", "tell me about the moon",
      "shutdown", "reboot", "please open github",
      "how are you", "who are you", "hello" }

\* What the user answers inside the sub-dialogues.
TopicResponses == { "moon", "exit" }
QueryResponses == { "cats", "shutdown" }
NoteResponses == { "buy milk", "exit" }
YesNoResponses == { "yes", "Yes please", "I confirm", "no", "no goodbye" }
MessageResponses == { "call mom" }
MinutesResponses == { "please in 5 minutes ok", "0 or 5", "five", "stop in 5" }

\* platform.system()
Systems == { "Windows", "Linux", "Darwin", "Java" }

\* datetime.now() as the handlers format it
Hours == { 9, 13, 19, 23 }
ClockTimes == { "09:15 AM" }
Dates == { "November 01, 2026" }
IsoTimes == { "2026-11-01T09:15:00" }
PhotoStamps == { "1793520900" }

\* The module global cv2: the module, or None when the import failed. The
\* import happens once per run; take_photo() only tests the global, and each
\* call of the model sees either outcome.
Cv2Imports == { "module", "None" }

\* page.summary of the pages found
Summaries == { "Ada was a mathematician. She wrote programs. She lived in London.", "" }

\* ------------------------------------------------------------- the state
VARIABLES
    pc,         \* where the main thread is
    query,      \* main(): the command returned by takeCommand at the loop
    message,    \* set_reminder(): the local message, across the minutes prompt
    trace,      \* what the main thread did since the loop last spoke "Listening",
                \* or since an interrupt was raised; empty once the process is gone
    notesFile,  \* the content of notes.json
    reminders,  \* the threading.Timer objects started, in creation order
    saved       \* history: the contents write_note() has written, in order

vars == <<pc, query, message, trace, notesFile, reminders, saved>>

Ev(kind, arg) == [kind |-> kind, arg |-> arg]

\* speak(text): the text is printed and said by the engine
speak(text) == <<Ev("speak", text)>>

\* What one call of takeCommand() can come to: the recognizer's text, or one
\* of the three failures the function catches.
Outcomes(texts) ==
    { [res |-> "ok", text |-> t] : t \in texts }
        \cup { [res |-> r, text |-> ""] : r \in {"unknown_value", "request_error", "microphone_error"} }

\* takeCommand(): the value returned
takeCommand(o) == IF o.res = "ok" THEN o.text ELSE ""

\* takeCommand(): what it speaks before returning, and the value returned
takeCommandEvents(o) ==
    (CASE o.res = "ok" -> <<>>
       [] o.res = "unknown_value" -> speak("Sorry, I didn't understand that. Please say it again.")
       [] o.res = "request_error" -> speak("Network/API error. Check your internet connection.")
       [] OTHER -> speak("Microphone not available. Check your microphone and permissions."))
      \o <<Ev("heard", takeCommand(o))>>

\* wishMe(): the greeting for the hour, then the introduction
wishMe(hour) ==
    speak(IF 5 <= hour /\ hour < 12 THEN "Good morning!"
          ELSE IF 12 <= hour /\ hour < 18 THEN "Good afternoon!"
          ELSE IF 18 <= hour /\ hour < 22 THEN "Good evening!"
          ELSE "Hello!")
      \o speak("I am your voice assistant. How can I help you?")

\* ------------------------------------------------------- process_command
ExitWords == { "exit", "quit", "goodbye", "stop", "bye" }

HasExitWord(cmd) == \E x \in ExitWords : Contains(cmd, x)

WEBSITE_KEYS == << "google", "youtube", "github", "gmail" >>

WEBSITE_MAP ==
    [ k \in { WEBSITE_KEYS[i] : i \in 1..Len(WEBSITE_KEYS) } |->
        CASE k = "google" -> "https://www.google.com"
          [] k = "youtube" -> "https://www.youtube.com"
          [] k = "github" -> "https://github.com"
          [] OTHER -> "https://mail.google.com" ]

\* the keys of the loop `for key in WEBSITE_MAP.keys()` that pass its test
ShortcutHits(cmd) ==
    { i \in 1..Len(WEBSITE_KEYS) : Contains(cmd, WEBSITE_KEYS[i]) /\ Contains(cmd, "open") }

FirstShortcut(cmd) == WEBSITE_KEYS[CHOOSE i \in ShortcutHits(cmd) : \A j \in ShortcutHits(cmd) : i <= j]

Handler(h, arg) == [h |-> h, arg |-> arg]

\* (mutant) the note test moved before the time and date tests
Rule_NoteBeforeTime(cmd) ==
    IF HasExitWord(cmd) THEN Handler("exit", "")
    ELSE IF Contains(cmd, "wikipedia")
        THEN Handler("search_wikipedia", Strip(Remove(cmd, "wikipedia")))
    ELSE IF StartsWith(cmd, "open ")
        THEN Handler("open_website", Strip(Remove(cmd, "open ")))
    ELSE IF Contains(cmd, "search for") \/ StartsWith(cmd, "search ")
        THEN Handler("google_search", Strip(Remove(Remove(cmd, "search for"), "search")))
    ELSE IF Contains(cmd, "google ")
        THEN Handler("google_search", Strip(Remove(cmd, "google")))
    ELSE IF Contains(cmd, "write a note") \/ Contains(cmd, "take note") \/ Contains(cmd, "note")
        THEN Handler("write_note", "")
    ELSE IF Contains(cmd, "time") THEN Handler("tell_time", "")
    ELSE IF Contains(cmd, "date") THEN Handler("tell_date", "")
    ELSE IF Contains(cmd, "remind me") \/ Contains(cmd, "set reminder")
        THEN Handler("set_reminder", "")
    ELSE IF Contains(cmd, "take a photo") \/ Contains(cmd, "take photo") \/ Contains(cmd, "capture photo")
        THEN Handler("take_photo", "")
    ELSE IF StartsWith(cmd, "who is ") \/ StartsWith(cmd, "what is ") \/ StartsWith(cmd, "tell me about ")
        THEN Handler("search_wikipedia",
                     Strip(Remove(Remove(Remove(cmd, "who is"), "what is"), "tell me about")))
    ELSE IF Contains(cmd, "shutdown") THEN Handler("shutdown_system", "")
    ELSE IF Contains(cmd, "restart") \/ Contains(cmd, "reboot") THEN Handler("restart_system", "")
    ELSE IF ShortcutHits(cmd) # {} THEN Handler("open_website", FirstShortcut(cmd))
    ELSE Handler("small_talk", cmd)

\* process_command(): the chain of tests after the empty-command test, giving
\* the handler called and the argument it is called with
Rule(cmd) ==
    IF HasExitWord(cmd) THEN Handler("exit", "")
    ELSE IF Contains(cmd, "wikipedia")
        THEN Handler("search_wikipedia", Strip(Remove(cmd, "wikipedia")))
    ELSE IF StartsWith(cmd, "open ")
        THEN Handler("open_website", Strip(Remove(cmd, "open ")))
    ELSE IF Contains(cmd, "search for") \/ StartsWith(cmd, "search ")
        THEN Handler("google_search", Strip(Remove(Remove(cmd, "search for"), "search")))
    ELSE IF Contains(cmd, "google ")
        THEN Handler("google_search", Strip(Remove(cmd, "google")))
    ELSE IF Contains(cmd, "time") THEN Handler("tell_time", "")
    ELSE IF Contains(cmd, "date") THEN Handler("tell_date", "")
    ELSE IF Contains(cmd, "write a note") \/ Contains(cmd, "take note") \/ Contains(cmd, "note")
        THEN Handler("write_note", "")
    ELSE IF Contains(cmd, "remind me") \/ Contains(cmd, "set reminder")
        THEN Handler("set_reminder", "")
    ELSE IF Contains(cmd, "take a photo") \/ Contains(cmd, "take photo") \/ Contains(cmd, "capture photo")
        THEN Handler("take_photo", "")
    ELSE IF StartsWith(cmd, "who is ") \/ StartsWith(cmd, "what is ") \/ StartsWith(cmd, "tell me about ")
        THEN Handler("search_wikipedia",
                     Strip(Remove(Remove(Remove(cmd, "who is"), "what is"), "tell me about")))
    ELSE IF Contains(cmd, "shutdown") THEN Handler("shutdown_system", "")
    ELSE IF Contains(cmd, "restart") \/ Contains(cmd, "reboot") THEN Handler("restart_system", "")
    ELSE IF ShortcutHits(cmd) # {} THEN Handler("open_website", FirstShortcut(cmd))
    ELSE Handler("small_talk", cmd)

\* -------------------------------------------------------------- handlers
\* A handler's straight-line run: the events it adds to the trace and where
\* the main thread is afterwards ("announce": back at the top of the loop;
\* "uncaught": an exception left main(); else the blocking takeCommand()).
Run(evs, next) == [evs |-> evs, next |-> next]

Sentences == 2

Min(a, b) == IF a < b THEN a ELSE b

\* search_wikipedia(): the text spoken for a page that exists
ShortSummary(summary) ==
    LET parts == SplitOn(summary, ".")
        short == Strip(Join(SubSeq(parts, 1, Min(Sentences, Len(parts))), ". "))
    IN  IF short = "" THEN SubSeq(summary, 1, Min(500, Len(summary))) ELSE short

\* search_wikipedia(), from wiki_wiki.page(topic) on; `page` is what the
\* lookup comes to: "found", "not_found", or "error" (the request raises)
wiki_page(topic, page, summary) ==
    CASE page = "found" ->
           Run(<<Ev("lookup", topic)>> \o speak("According to Wikipedia: " \o ShortSummary(summary)),
               "announce")
      [] page = "not_found" ->
           Run(<<Ev("lookup", topic)>> \o speak("I couldn't find that page on Wikipedia."), "announce")
      [] OTHER -> Run(<<Ev("lookup", topic), Ev("raise", "ConnectionError")>>, "uncaught")

\* search_wikipedia(), up to the lookup or to the prompt for the topic
search_wikipedia(q, page, summary) ==
    LET topic == Strip(q)
    IN  IF topic = ""
        THEN Run(speak("What should I search on Wikipedia?"), "wiki_ask")
        ELSE wiki_page(topic, page, summary)

\* (mutant) the lookup in WEBSITE_MAP left out
open_website_NoShortcut(site_key) ==
    IF Contains(site_key, ".")
    THEN Run(<<Ev("open_url", "http://" \o site_key)>> \o speak("Opening " \o site_key), "announce")
    ELSE Run(speak("I don't have a direct shortcut for " \o site_key \o ". I'll search it on Google.")
               \o <<Ev("open_url", "https://www.google.com/search?q=" \o quote_plus(site_key))>>,
             "announce")

\* open_website()
open_website(site_key) ==
    IF site_key \in DOMAIN WEBSITE_MAP
    THEN Run(<<Ev("open_url", WEBSITE_MAP[site_key])>> \o speak("Opening " \o site_key \o "."), "announce")
    ELSE IF Contains(site_key, ".")
    THEN Run(<<Ev("open_url", "http://" \o site_key)>> \o speak("Opening " \o site_key), "announce")
    ELSE Run(speak("I don't have a direct shortcut for " \o site_key \o ". I'll search it on Google.")
               \o <<Ev("open_url", "https://www.google.com/search?q=" \o quote_plus(site_key))>>,
             "announce")

\* google_search(), from webbrowser.open on
search_open(q) ==
    Run(<<Ev("open_url", "https://www.google.com/search?q=" \o quote_plus(q))>>
          \o speak("Here are the search results for " \o q \o "."), "announce")

\* google_search(), up to the search or to the prompt for the query
google_search(q) ==
    IF q = "" THEN Run(speak("What should I search for?"), "search_ask") ELSE search_open(q)

tell_time(now) == Run(speak("The time is " \o now), "announce")

tell_date(today) == Run(speak("Today's date is " \o today), "announce")

\* open_file(): the platform's command, and the failure message when it raises
open_file(path, system, ok) ==
    <<Ev("open_file",
         (IF system = "Windows" THEN "startfile "
          ELSE IF system = "Darwin" THEN "open " ELSE "xdg-open ") \o path)>>
      \o (IF ok THEN <<>> ELSE speak("Unable to open file. [Errno 2] No such file or directory"))

\* small_talk()
small_talk(command) ==
    Run(speak(IF Contains(command, "how are you")
                THEN "I am a program, but I'm functioning correctly. How can I help you?"
              ELSE IF Contains(command, "your name") \/ Contains(command, "who are you")
                THEN "I am your voice assistant. You can call me Assistant."
              ELSE "Sorry, I didn't understand that. I can open websites, search Google, fetch Wikipedia, set reminders, write notes, and run system commands."),
        "announce")

\* ----------------------------------------------------------------- notes
NOTES_FILE == "notes.json"

\* The content of notes.json: no file ("missing"), a file of no bytes
\* ("empty"), bytes that are no JSON document ("garbage"), a JSON document
\* that is an object ("json_dict"), or a JSON array of the items ("json_list").
File(kind, items) == [kind |-> kind, items |-> items]

Note(time, content) == [time |-> time, content |-> content]

\* os.path.exists(NOTES_FILE)
Exists(file) == file.kind # "missing"

\* json.load(f): raises on what is no JSON document, else the document's value
json_load(file) ==
    CASE file.kind = "json_list" -> [raises |-> FALSE, list |-> TRUE, items |-> file.items]
      [] file.kind = "json_dict" -> [raises |-> FALSE, list |-> FALSE, items |-> <<>>]
      [] OTHER -> [raises |-> TRUE, list |-> TRUE, items |-> <<>>]

\* write_note(): the value of `notes` before the append
LoadNotes(file) ==
    IF Exists(file)
    THEN (IF json_load(file).raises
          THEN [list |-> TRUE, items |-> <<>>]
          ELSE [list |-> json_load(file).list, items |-> json_load(file).items])
    ELSE [list |-> TRUE, items |-> <<>>]

\* (mutant) the new note put in front of the list
AppendNote_Prepend(items, note) == <<note>> \o items

\* notes.append(note)
AppendNote(items, note) == Append(items, note)

\* (mutant) the test on the content left out
NoContent_Never(content) == FALSE

\* write_note(): the test on the content heard
NoContent(content) == content = ""

\* write_note(), from the content returned by takeCommand() to the question
\* about opening the file. `wr` is what writing the file comes to: "ok",
\* "open_fails" (open(..., "w") raises, the file is untouched) or
\* "dump_fails" (the file is truncated, then the write raises).
write_note_content(content, file, iso, wr) ==
    IF NoContent(content)
    THEN [evs |-> speak("No content provided; note canceled."), next |-> "announce", file |-> file]
    ELSE
      LET notes == LoadNotes(file)
          read == IF Exists(file) THEN <<Ev("read_file", NOTES_FILE)>> ELSE <<>>
          new == AppendNote(notes.items, Note(iso, content))
      IN  IF ~notes.list
          THEN [evs |-> read \o <<Ev("raise", "AttributeError")>>, next |-> "uncaught", file |-> file]
          ELSE IF wr = "open_fails"
          THEN [evs |-> read \o <<Ev("raise", "OSError")>>, next |-> "uncaught", file |-> file]
          ELSE IF wr = "dump_fails"
          THEN [evs |-> read \o <<Ev("write_file", NOTES_FILE), Ev("raise", "OSError")>>,
                next |-> "uncaught", file |-> File("garbage", <<>>)]
          ELSE [evs |-> read \o <<Ev("write_file", NOTES_FILE)>> \o speak("Note saved.")
                          \o speak("Do you want me to open the notes file? Say yes or no."),
                next |-> "note_open", file |-> File("json_list", new)]

\* write_note(): the test on the answer to the last question
WantsOpen(ans) == Contains(ans, "yes")

write_note_answer(text, system, ok) ==
    IF WantsOpen(Lower(text)) THEN Run(open_file(NOTES_FILE, system, ok), "announce")
    ELSE Run(<<>>, "announce")

\* ------------------------------------------------------------- reminders
\* set_reminder(): the loop over mins_text.split(); <<>> stands for None
RECURSIVE FirstInt(_)
FirstInt(tokens) ==
    IF tokens = <<>> THEN <<>>
    ELSE IF IsInt(Head(tokens)) THEN <<IntVal(Head(tokens))>>
    ELSE FirstInt(Tail(tokens))

\* (mutant) the loop without its break: the last token that parses wins
RECURSIVE LastInt(_)
LastInt(tokens) ==
    IF tokens = <<>> THEN <<>>
    ELSE IF IsInt(tokens[Len(tokens)]) THEN <<IntVal(tokens[Len(tokens)])>>
    ELSE LastInt(SubSeq(tokens, 1, Len(tokens) - 1))

ParseMinutes_Last(mins_text) == LastInt(Split(mins_text))

ParseMinutes(mins_text) == FirstInt(Split(mins_text))

RECURSIVE NatStr(_)
NatStr(n) ==
    IF n < 10 THEN Char(Digits, n + 1) ELSE NatStr(n \div 10) \o Char(Digits, (n % 10) + 1)

\* python: str(n) of an int, as the f-string formats it
IntStr(n) == IF n < 0 THEN "-" \o NatStr(0 - n) ELSE NatStr(n)

\* (mutant) the daemon flag left at its default
TimerDaemon_Default == FALSE

\* t.daemon = True
TimerDaemon == TRUE

\* threading.Timer(minutes * 60, _reminder), with its daemon flag, started;
\* `runs` counts the calls of _reminder(), each speaking "Reminder: {message}"
Timer(minutes, text) ==
    [interval |-> minutes * 60, message |-> text, daemon |-> TimerDaemon,
     state |-> "waiting", runs |-> 0]

\* the Timer thread calls _reminder()
TimerCalls(t) == [t EXCEPT !.state = "speaking", !.runs = @ + 1]

\* (mutant) a timer that arms itself again after the callback
TimerEnds_Rearm(t) == [t EXCEPT !.state = "waiting"]

\* a threading.Timer is one-shot: its thread ends when _reminder() returns
TimerEnds(t) == [t EXCEPT !.state = "finished"]

\* set_reminder(), from the message returned by takeCommand() to the prompt
\* for the minutes
set_reminder_message(text) ==
    IF text = "" THEN Run(speak("No message provided. Reminder canceled."), "announce")
    ELSE Run(speak("In how many minutes should I remind you?"), "reminder_minutes")

\* set_reminder(), from the minutes text returned by takeCommand() on
set_reminder_minutes(msg, mins_text, timers) ==
    LET minutes == ParseMinutes(mins_text)
    IN  IF minutes = <<>>
        THEN [evs |-> speak("I couldn't parse the time in minutes. Reminder canceled."),
              next |-> "announce", timers |-> timers]
        ELSE [evs |-> <<Ev("timer_start", IntStr(minutes[1] * 60))>>
                        \o speak("Okay, I will remind you in " \o IntStr(minutes[1]) \o " minutes."),
              next |-> "announce", timers |-> Append(timers, Timer(minutes[1], msg))]

\* ----------------------------------------------------------------- photo
\* take_photo(); `opened` is cam.isOpened(), `ret` what cam.read() returns
take_photo(lib, opened, ret, stamp, system, ok) ==
    IF lib = "None"
    THEN Run(speak("OpenCV is not installed. Install opencv-python to use the camera."), "announce")
    ELSE IF ~opened
    THEN Run(<<Ev("camera_create", "0")>> \o speak("Could not access the camera."), "announce")
    ELSE IF ret
    THEN Run(<<Ev("camera_create", "0"), Ev("imwrite", "photo_" \o stamp \o ".png")>>
               \o speak("Photo taken and saved as photo_" \o stamp \o ".png")
               \o open_file("photo_" \o stamp \o ".png", system, ok)
               \o <<Ev("camera_release", "0")>>, "announce")
    ELSE Run(<<Ev("camera_create", "0")>> \o speak("Failed to capture photo.")
               \o <<Ev("camera_release", "0")>>, "announce")

\* -------------------------------------------------------- system commands
\* (mutant) everything but a "no" is taken as a confirmation
Confirmed_UnlessNo(ans) == ~Contains(ans, "no")

\* shutdown_system() / restart_system(): the test on the answer
Confirmed(ans) == Contains(ans, "yes") \/ Contains(ans, "confirm")

\* shutdown_system(), from the answer returned by takeCommand() on
shutdown_answer(text, system) ==
    IF Confirmed(Lower(text))
    THEN Run(speak("Shutting down...")
               \o (IF system = "Windows" THEN <<Ev("os", "shutdown /s /t 5")>>
                   ELSE IF system \in {"Linux", "Darwin"} THEN <<Ev("os", "sudo shutdown now")>>
                   ELSE <<>>), "announce")
    ELSE Run(speak("Shutdown canceled."), "announce")

\* restart_system(), from the answer returned by takeCommand() on
restart_answer(text, system) ==
    IF Confirmed(Lower(text))
    THEN Run(speak("Restarting...")
               \o (IF system = "Windows" THEN <<Ev("os", "shutdown /r /t 5")>>
                   ELSE IF system \in {"Linux", "Darwin"} THEN <<Ev("os", "sudo reboot")>>
                   ELSE <<>>), "announce")
    ELSE Run(speak("Restart canceled."), "announce")

\* ------------------------------------------------------------- the start
InitialFiles ==
    { File("missing", <<>>), File("empty", <<>>), File("garbage", <<>>),
      File("json_dict", <<>>), File("json_list", <<>>) }

Init ==
    /\ pc = "greet"
    /\ query = ""
    /\ message = ""
    /\ trace = <<>>
    /\ notesFile \in InitialFiles
    /\ reminders = <<>>
    /\ saved = <<>>

\* ------------------------------------------------------------- main loop
\* main(): wishMe()
Greet ==
    /\ pc = "greet"
    /\ \E hour \in Hours : trace' = wishMe(hour)
    /\ pc' = "announce"
    /\ UNCHANGED <<query, message, notesFile, reminders, saved>>

\* main(): the top of the loop, after time.sleep(0.5) when a command was
\* processed; query and message are dead until assigned again
Announce ==
    /\ pc = "announce"
    /\ trace' = speak("Listening for your command.")
    /\ pc' = "listen"
    /\ query' = ""
    /\ message' = ""
    /\ UNCHANGED <<notesFile, reminders, saved>>

\* (mutant) the test on the empty query left out
AfterListen_Always(q) == "dispatch"

\* main(): `if not query: continue`, else process_command(query)
AfterListen(q) == IF q = "" THEN "announce" ELSE "dispatch"

NoteCount(file) == Len(file.items)

\* process_command(command): cmd = command.lower(), then the chain; the
\* table holds the chain's result for each command of the model
Dispatch == [ u \in MainUtterances |-> Rule(Lower(u)) ]

\* The commands offered stay within the bounds of the model.
Offered(text) ==
    /\ text # "" /\ Dispatch[text].h = "write_note" => NoteCount(notesFile) < MaxNotes
    /\ text # "" /\ Dispatch[text].h = "set_reminder" => Len(reminders) < MaxReminders

\* main(): query = takeCommand()
Listen ==
    /\ pc = "listen"
    /\ \E o \in Outcomes(MainUtterances) :
         /\ Offered(takeCommand(o))
         /\ trace' = trace \o takeCommandEvents(o)
         /\ query' = takeCommand(o)
         /\ pc' = AfterListen(takeCommand(o))
    /\ UNCHANGED <<message, notesFile, reminders, saved>>

\* (mutant) SystemExit swallowed and the loop continued
AfterSystemExit_Continue == "announce"

\* main(): `except SystemExit: break`, after which main() returns
AfterSystemExit == "returned"

\* process_command(): past `if cmd == "": return`, the handler the chain calls
Called(h) == pc = "dispatch" /\ Lower(query) # "" /\ Dispatch[query].h = h

Do(r) == trace' = trace \o <<Ev("call", Dispatch[query].h)>> \o r.evs /\ pc' = r.next

process_command_exit ==
    /\ Called("exit")
    /\ Do(Run(speak("Goodbye. Have a nice day!") \o <<Ev("raise", "SystemExit")>>, AfterSystemExit))
    /\ UNCHANGED <<query, message, notesFile, reminders, saved>>

process_command_wikipedia ==
    /\ Called("search_wikipedia")
    /\ \E page \in {"found", "not_found", "error"} :
         \E summary \in (IF page = "found" THEN Summaries ELSE {""}) :
            Do(search_wikipedia(Dispatch[query].arg, page, summary))
    /\ UNCHANGED <<query, message, notesFile, reminders, saved>>

process_command_open ==
    /\ Called("open_website")
    /\ Do(open_website(Dispatch[query].arg))
    /\ UNCHANGED <<query, message, notesFile, reminders, saved>>

process_command_search ==
    /\ Called("google_search")
    /\ Do(google_search(Dispatch[query].arg))
    /\ UNCHANGED <<query, message, notesFile, reminders, saved>>

process_command_time ==
    /\ Called("tell_time")
    /\ \E now \in ClockTimes : Do(tell_time(now))
    /\ UNCHANGED <<query, message, notesFile, reminders, saved>>

process_command_date ==
    /\ Called("tell_date")
    /\ \E today \in Dates : Do(tell_date(today))
    /\ UNCHANGED <<query, message, notesFile, reminders, saved>>

\* write_note(), up to the first takeCommand()
process_command_note ==
    /\ Called("write_note")
    /\ Do(Run(speak("What should I write in the note?"), "note_content"))
    /\ UNCHANGED <<query, message, notesFile, reminders, saved>>

\* set_reminder(), up to the first takeCommand()
process_command_reminder ==
    /\ Called("set_reminder")
    /\ Do(Run(speak("What should I remind you about?"), "reminder_message"))
    /\ UNCHANGED <<query, message, notesFile, reminders, saved>>

process_command_photo ==
    /\ Called("take_photo")
    /\ \E lib \in Cv2Imports, opened \in BOOLEAN, ret \in BOOLEAN, stamp \in PhotoStamps,
          system \in Systems, ok \in BOOLEAN :
         Do(take_photo(lib, opened, ret, stamp, system, ok))
    /\ UNCHANGED <<query, message, notesFile, reminders, saved>>

\* shutdown_system(), up to takeCommand()
process_command_shutdown ==
    /\ Called("shutdown_system")
    /\ Do(Run(speak("Do you really want to shutdown the computer? Say 'yes' to confirm."),
              "shutdown_confirm"))
    /\ UNCHANGED <<query, message, notesFile, reminders, saved>>

\* restart_system(), up to takeCommand()
process_command_restart ==
    /\ Called("restart_system")
    /\ Do(Run(speak("Do you really want to restart the computer? Say 'yes' to confirm."),
              "restart_confirm"))
    /\ UNCHANGED <<query, message, notesFile, reminders, saved>>

process_command_small_talk ==
    /\ Called("small_talk")
    /\ Do(small_talk(Dispatch[query].arg))
    /\ UNCHANGED <<query, message, notesFile, reminders, saved>>

\* ----------------------------------------------------- the sub-dialogues
\* (mutant) the response put through the exit test of process_command
Resume_Classified(o, r) ==
    /\ trace' = trace \o takeCommandEvents(o) \o r.evs
    /\ pc' = IF HasExitWord(Lower(takeCommand(o))) THEN "returned" ELSE r.next

\* a handler goes on from its takeCommand(): what was heard, then the
\* handler's run on it
Resume(o, r) == trace' = trace \o takeCommandEvents(o) \o r.evs /\ pc' = r.next

\* search_wikipedia(): topic = takeCommand(), and the rest
WikiTopic ==
    /\ pc = "wiki_ask"
    /\ \E o \in Outcomes(TopicResponses), page \in {"found", "not_found", "error"} :
         \E summary \in (IF page = "found" THEN Summaries ELSE {""}) :
            Resume(o, wiki_page(takeCommand(o), page, summary))
    /\ UNCHANGED <<query, message, notesFile, reminders, saved>>

\* google_search(): query = takeCommand(), and the rest
SearchQuery ==
    /\ pc = "search_ask"
    /\ \E o \in Outcomes(QueryResponses) : Resume(o, search_open(takeCommand(o)))
    /\ UNCHANGED <<query, message, notesFile, reminders, saved>>

\* write_note(): content = takeCommand(), up to the second takeCommand()
NoteContent ==
    /\ pc = "note_content"
    /\ \E o \in Outcomes(NoteResponses), iso \in IsoTimes, wr \in {"ok", "open_fails", "dump_fails"} :
         LET r == write_note_content(takeCommand(o), notesFile, iso, wr)
         IN  /\ Resume(o, r)
             /\ notesFile' = r.file
             /\ saved' = IF r.next = "note_open" THEN Append(saved, takeCommand(o)) ELSE saved
    /\ UNCHANGED <<query, message, reminders>>

\* write_note(): ans = takeCommand().lower(), and the rest
NoteOpenAnswer ==
    /\ pc = "note_open"
    /\ \E o \in Outcomes(YesNoResponses), system \in Systems, ok \in BOOLEAN :
         Resume(o, write_note_answer(takeCommand(o), system, ok))
    /\ UNCHANGED <<query, message, notesFile, reminders, saved>>

\* set_reminder(): message = takeCommand(), up to the second takeCommand()
ReminderMessage ==
    /\ pc = "reminder_message"
    /\ \E o \in Outcomes(MessageResponses) :
         /\ Resume(o, set_reminder_message(takeCommand(o)))
         /\ message' = takeCommand(o)
    /\ UNCHANGED <<query, notesFile, reminders, saved>>

\* set_reminder(): mins_text = takeCommand(), and the rest
ReminderMinutes ==
    /\ pc = "reminder_minutes"
    /\ \E o \in Outcomes(MinutesResponses) :
         LET r == set_reminder_minutes(message, takeCommand(o), reminders)
         IN  Resume(o, r) /\ reminders' = r.timers
    /\ UNCHANGED <<query, message, notesFile, saved>>

\* shutdown_system(): ans = takeCommand().lower(), and the rest
ShutdownAnswer ==
    /\ pc = "shutdown_confirm"
    /\ \E o \in Outcomes(YesNoResponses), system \in Systems :
         Resume(o, shutdown_answer(takeCommand(o), system))
    /\ UNCHANGED <<query, message, notesFile, reminders, saved>>

\* restart_system(): ans = takeCommand().lower(), and the rest
RestartAnswer ==
    /\ pc = "restart_confirm"
    /\ \E o \in Outcomes(YesNoResponses), system \in Systems :
         Resume(o, restart_answer(takeCommand(o), system))
    /\ UNCHANGED <<query, message, notesFile, reminders, saved>>

\* ---------------------------------------------------------- the interrupt
\* Where the main thread blocks (speaking, listening, sleeping)
InLoop ==
    { "announce", "listen", "wiki_ask", "search_ask", "note_content", "note_open",
      "reminder_message", "reminder_minutes", "shutdown_confirm", "restart_confirm" }

\* KeyboardInterrupt raised in the main thread: inside the try of main() it
\* is caught and acknowledged; in wishMe(), before the try, it leaves main()
Interrupt ==
    /\ pc \in InLoop \cup {"greet"}
    /\ IF pc = "greet"
       THEN trace' = <<Ev("raise", "KeyboardInterrupt")>> /\ pc' = "uncaught"
       ELSE trace' = <<Ev("raise", "KeyboardInterrupt")>>
                       \o speak("Assistant terminated by user. Bye!")
            /\ pc' = "returned"
    /\ query' = ""
    /\ message' = ""
    /\ UNCHANGED <<notesFile, reminders, saved>>

\* ------------------------------------------------------- the timer threads
Alive == pc # "terminated"

\* the Timer's interval has elapsed: its thread calls _reminder(), which
\* speaks "Reminder: {message}"
TimerFire(i) ==
    /\ Alive
    /\ reminders[i].state = "waiting"
    /\ reminders' = [reminders EXCEPT ![i] = TimerCalls(@)]
    /\ UNCHANGED <<pc, query, message, trace, notesFile, saved>>

\* _reminder() returns and the Timer thread ends
TimerDone(i) ==
    /\ Alive
    /\ reminders[i].state = "speaking"
    /\ reminders' = [reminders EXCEPT ![i] = TimerEnds(@)]
    /\ UNCHANGED <<pc, query, message, trace, notesFile, saved>>

\* The threads the interpreter joins before it exits: the non-daemon threads
\* that have not ended
Joined == { i \in 1..Len(reminders) : ~reminders[i].daemon /\ reminders[i].state # "finished" }

\* main() has returned or an exception has left it: the interpreter exits,
\* and the daemon threads still running end with it
ProcessExit ==
    /\ pc \in {"returned", "uncaught"}
    /\ Joined = {}
    /\ pc' = "terminated"
    /\ query' = ""
    /\ message' = ""
    /\ trace' = <<>>
    /\ UNCHANGED <<notesFile, reminders, saved>>

Next ==
    \/ Greet \/ Announce \/ Listen
    \/ process_command_exit \/ process_command_wikipedia
    \/ process_command_open \/ process_command_search \/ process_command_time
    \/ process_command_date \/ process_command_note \/ process_command_reminder
    \/ process_command_photo \/ process_command_shutdown \/ process_command_restart
    \/ process_command_small_talk
    \/ WikiTopic \/ SearchQuery \/ NoteContent \/ NoteOpenAnswer
    \/ ReminderMessage \/ ReminderMinutes \/ ShutdownAnswer \/ RestartAnswer
    \/ Interrupt
    \/ \E i \in 1..Len(reminders) : TimerFire(i) \/ TimerDone(i)
    \/ ProcessExit

Spec == Init /\ [][Next]_vars

\* ---------------------------------------------------- reading the trace
EventsOf(tr, kind) == SelectSeq(tr, LAMBDA e : e.kind = kind)

SpokeIn(tr, text) == \E i \in DOMAIN tr : tr[i] = Ev("speak", text)

Calls == EventsOf(trace, "call")

Farewell == "Goodbye. Have a nice day!"

\* ------------------------------------------------------------------- C1
\* C1: when the lowercased command contains an exit keyword, whatever else it
\* contains, the dispatch speaks the farewell, calls no handler but the exit
\* branch, and leaves main() returned; once main() has returned nothing is
\* heard any more (the only step left is the process exiting).
C1_ExitEndsLoop ==
    [][ /\ (pc = "dispatch" /\ HasExitWord(Lower(query)) /\ pc' # pc) =>
            /\ pc' = "returned"
            /\ SpokeIn(trace', Farewell)
            /\ EventsOf(trace', "call") = <<Ev("call", "exit")>>
            /\ Len(EventsOf(trace', "heard")) = 1
        /\ pc = "returned" => pc' \in {"returned", "terminated"}
      ]_vars

\* C1 witness: "stop writing notes" (an exit keyword and a note keyword) ended
\* the loop with the farewell.
C1_Witness ==
    /\ pc = "returned"
    /\ query = "stop writing notes"
    /\ SpokeIn(trace, Farewell)
    /\ Calls = <<Ev("call", "exit")>>

\* ------------------------------------------------------------------- C2
SaysYesOrConfirm(text) == Contains(Lower(text), "yes") \/ Contains(Lower(text), "confirm")

ShutdownPrompt == "Do you really want to shutdown the computer? Say 'yes' to confirm."
RestartPrompt == "Do you really want to restart the computer? Say 'yes' to confirm."

PowerCommands == { "shutdown /s /t 5", "sudo shutdown now", "shutdown /r /t 5", "sudo reboot" }

\* the prompt an OS command needs before it
PromptFor(command) ==
    IF command \in {"shutdown /s /t 5", "sudo shutdown now"} THEN ShutdownPrompt ELSE RestartPrompt

\* positions i < j < k of the trace: the prompt, then the response heard right
\* after it, which says yes or confirm, then the OS command
Gated(k) ==
    \E i \in 1..(k - 1) :
        /\ trace[i] = Ev("speak", PromptFor(trace[k].arg))
        /\ \E j \in (i + 1)..(k - 1) :
            /\ trace[j].kind = "heard"
            /\ \A m \in (i + 1)..(j - 1) : trace[m].kind # "heard"
            /\ SaysYesOrConfirm(trace[j].arg)

\* the response to the confirmation prompt, once heard: <<>> before
ConfirmResponse ==
    IF \E i \in DOMAIN trace : trace[i].kind = "speak" /\ trace[i].arg \in {ShutdownPrompt, RestartPrompt}
    THEN LET i == CHOOSE i \in DOMAIN trace :
                    trace[i].kind = "speak" /\ trace[i].arg \in {ShutdownPrompt, RestartPrompt}
             after == EventsOf(SubSeq(trace, i + 1, Len(trace)), "heard")
         IN  IF after = <<>> THEN <<>> ELSE <<after[1].arg>>
    ELSE <<>>

\* C2: every OS command in the trace is a shutdown or restart command that
\* comes after its confirmation prompt and after a response to it containing
\* "yes" or "confirm"; and when the response contains neither (the empty
\* response of a failed recognition included) the dispatch issues no OS
\* command and speaks the cancellation.
C2_ConfirmationGate ==
    /\ \A k \in DOMAIN trace :
          trace[k].kind = "os" => trace[k].arg \in PowerCommands /\ Gated(k)
    /\ (ConfirmResponse # <<>> /\ ~SaysYesOrConfirm(ConfirmResponse[1])) =>
          /\ EventsOf(trace, "os") = <<>>
          /\ IF Calls = <<Ev("call", "shutdown_system")>>
             THEN SpokeIn(trace, "Shutdown canceled.")
             ELSE SpokeIn(trace, "Restart canceled.")

\* C2 witness: a failed recognition answered the shutdown prompt, and the
\* shutdown was cancelled.
C2_Witness ==
    /\ Calls = <<Ev("call", "shutdown_system")>>
    /\ ConfirmResponse = <<"">>
    /\ SpokeIn(trace, "Shutdown canceled.")
    /\ EventsOf(trace, "os") = <<>>

\* ------------------------------------------------------------------- C3
\* the rules in their priority order: <<the rule matches t, its handler>>
PriorityRules(t) ==
    << <<\E w \in {"exit", "quit", "goodbye", "stop", "bye"} : Contains(t, w), "exit">>,
       <<Contains(t, "wikipedia"), "search_wikipedia">>,
       <<StartsWith(t, "open "), "open_website">>,
       <<Contains(t, "search for") \/ StartsWith(t, "search ") \/ Contains(t, "google "), "google_search">>,
       <<Contains(t, "time"), "tell_time">>,
       <<Contains(t, "date"), "tell_date">>,
       <<Contains(t, "write a note") \/ Contains(t, "take note") \/ Contains(t, "note"), "write_note">>,
       <<Contains(t, "remind me") \/ Contains(t, "set reminder"), "set_reminder">>,
       <<Contains(t, "take a photo") \/ Contains(t, "take photo") \/ Contains(t, "capture photo"), "take_photo">>,
       <<StartsWith(t, "who is ") \/ StartsWith(t, "what is ") \/ StartsWith(t, "tell me about "),
         "search_wikipedia">>,
       <<Contains(t, "shutdown"), "shutdown_system">>,
       <<Contains(t, "restart") \/ Contains(t, "reboot"), "restart_system">>,
       <<Contains(t, "open") /\ \E k \in DOMAIN WEBSITE_MAP : Contains(t, k), "open_website">>,
       <<TRUE, "small_talk">> >>

FirstMatch(t) ==
    LET rules == PriorityRules(t)
        first == CHOOSE i \in DOMAIN rules : rules[i][1] /\ \A j \in 1..(i - 1) : ~rules[j][1]
    IN  rules[first][2]

\* C3: once a non-empty command has been dispatched, exactly one handler has
\* been called for it, the handler of the first rule of the priority order
\* that matches the lowercased command; before the dispatch none has.
C3_FirstMatchWins ==
    /\ (query # "" /\ pc # "dispatch") => Calls = <<Ev("call", FirstMatch(Lower(query)))>>
    /\ pc = "dispatch" => Calls = <<>>

\* C3 witness: "note the time" (a time keyword and a note keyword) was
\* dispatched to tell_time.
C3_Witness ==
    /\ query = "note the time"
    /\ Calls = <<Ev("call", "tell_time")>>
    /\ SpokeIn(trace, "The time is 09:15 AM")

\* ------------------------------------------------------------------- C4
NoteCanceled == "No content provided; note canceled."

\* the responses heard in a trace, the command of the main loop first
HeardIn(tr) == EventsOf(tr, "heard")

\* C4: when the response to the content prompt of write_note is empty, the
\* step leaves notes.json as it was, neither reads nor writes it, speaks the
\* cancellation as the last thing of the handler and returns to the loop
\* without another question.
C4_EmptyNoteIsNoOp ==
    [][ (pc = "note_content" /\ Len(HeardIn(trace')) = 2 /\ HeardIn(trace')[2].arg = "") =>
            /\ notesFile' = notesFile
            /\ EventsOf(trace', "read_file") = <<>>
            /\ EventsOf(trace', "write_file") = <<>>
            /\ trace'[Len(trace')] = Ev("speak", NoteCanceled)
            /\ pc' = "announce"
      ]_vars

\* C4 witness: write_note was cancelled on an empty response while the store
\* held a note.
C4_Witness ==
    /\ pc = "announce"
    /\ Calls = <<Ev("call", "write_note")>>
    /\ Len(HeardIn(trace)) = 2 /\ HeardIn(trace)[2].arg = ""
    /\ SpokeIn(trace, NoteCanceled)
    /\ notesFile.kind = "json_list" /\ Len(notesFile.items) = 1

\* ------------------------------------------------------------------- C5
\* the contents of the notes a reload of the store yields
ReloadedContents(file) == [i \in DOMAIN json_load(file).items |-> json_load(file).items[i].content]

\* C5: after the successful writes, a reload of notes.json yields exactly the
\* notes written, in the order written, each with its content (the stores the
\* model starts from hold no note); and each successful write keeps the
\* stored notes as a prefix and adds one note at the end, with the content
\* heard. The file changes in no other step than a write of write_note.
C5_AppendOnly ==
    /\ [](notesFile.kind = "json_list" => ReloadedContents(notesFile) = saved)
    /\ [][ /\ (pc = "note_content" /\ pc' = "note_open") =>
               /\ ~json_load(notesFile').raises /\ json_load(notesFile').list
               /\ LET old == LoadNotes(notesFile).items
                      new == json_load(notesFile').items
                  IN  /\ Len(new) = Len(old) + 1
                      /\ SubSeq(new, 1, Len(old)) = old
                      /\ new[Len(new)].content = HeardIn(trace')[2].arg
                      /\ new[Len(new)].content # ""
           /\ notesFile' # notesFile => pc = "note_content" /\ pc' \in {"note_open", "uncaught"}
         ]_vars

\* C5 witness: two notes with different contents were written to a store that
\* held none, and the reload gives them in the order written.
C5_Witness ==
    /\ saved = <<"exit", "buy milk">>
    /\ notesFile.kind = "json_list"
    /\ ReloadedContents(notesFile) = <<"exit", "buy milk">>

\* ------------------------------------------------------------------- C6
ParseFailure == "I couldn't parse the time in minutes. Reminder canceled."

\* the positions of the tokens that parse as an integer
IntTokens(text) == { i \in DOMAIN Split(text) : IsInt(Split(text)[i]) }

\* C6: in the step of set_reminder that hears the minutes response, the
\* minutes are the first whitespace-delimited token that parses as an integer
\* (one timer is started with that many minutes); when no token parses, no
\* timer is started and the parse failure is spoken.
C6_FirstIntegerToken ==
    [][ (pc = "reminder_minutes" /\ pc' = "announce") =>
          LET text == HeardIn(trace')[3].arg
              ints == IntTokens(text)
          IN  IF ints = {}
              THEN reminders' = reminders /\ trace'[Len(trace')] = Ev("speak", ParseFailure)
              ELSE LET first == CHOOSE i \in ints : \A j \in ints : i <= j
                       minutes == IntVal(Split(text)[first])
                   IN  /\ Len(reminders') = Len(reminders) + 1
                       /\ SubSeq(reminders', 1, Len(reminders)) = reminders
                       /\ reminders'[Len(reminders')].interval = minutes * 60
                       /\ trace'[Len(trace')] =
                            Ev("speak", "Okay, I will remind you in " \o IntStr(minutes) \o " minutes.")
      ]_vars

\* C6 witness: "please in 5 minutes ok" started a timer of 5 minutes.
C6_Witness ==
    /\ Len(HeardIn(trace)) = 3
    /\ HeardIn(trace)[3].arg = "please in 5 minutes ok"
    /\ reminders # <<>>
    /\ reminders[Len(reminders)].interval = 300
    /\ SpokeIn(trace, "Okay, I will remind you in 5 minutes.")

\* ------------------------------------------------------------------- C7
\* C7 (the claim, for write_note): a failure of write_note, the read, the
\* open or the write of notes.json included, is caught inside the handler
\* and the loop goes on: with write_note called, no exception leaves main().
C7_NoteFailuresCaught ==
    Calls = <<Ev("call", "write_note")>> => pc # "uncaught"

\* C7 (the claim, for every handler): main() is left only by the exit
\* command or the interrupt.
C7_OnlyExitOrInterrupt ==
    \A i \in DOMAIN trace :
        trace[i].kind = "raise" => trace[i].arg \in {"SystemExit", "KeyboardInterrupt"}

\* ------------------------------------------------------------------- C8
\* C8 (the claim as written): no reminder speaks twice, and when the process
\* is gone every reminder scheduled has spoken once.
C8_FiresExactlyOnce ==
    /\ \A i \in DOMAIN reminders : reminders[i].runs <= 1
    /\ pc = "terminated" => \A i \in DOMAIN reminders : reminders[i].runs = 1

\* C8 (amended): a reminder speaks at most once, it has spoken once exactly
\* when its timer is no longer waiting, a callback never un-happens, and
\* once the process is gone no reminder fires: one still waiting then never
\* speaks.
C8_AtMostOnce ==
    /\ [](\A i \in DOMAIN reminders :
            /\ reminders[i].runs <= 1
            /\ reminders[i].runs = 1 <=> reminders[i].state # "waiting")
    /\ [][ /\ \A i \in DOMAIN reminders : reminders'[i].runs >= reminders[i].runs
           /\ pc = "terminated" => reminders' = reminders
         ]_vars

\* C8 witness: a reminder has spoken once and its timer has ended while the
\* loop went on listening.
C8_Witness ==
    /\ pc = "listen"
    /\ \E i \in DOMAIN reminders :
        /\ reminders[i].state = "finished" /\ reminders[i].runs = 1
        /\ reminders[i].message = "call mom"

\* ------------------------------------------------------------------- C9
\* C9: once main() has ended the process can exit at once, whatever timers
\* are waiting or speaking; and the step of set_reminder that starts a timer
\* returns to the loop with that timer still waiting.
C9_ExitDoesNotWait ==
    /\ [](pc \in {"returned", "uncaught"} => ENABLED ProcessExit)
    /\ [][ (pc = "reminder_minutes" /\ Len(reminders') > Len(reminders)) =>
              /\ pc' = "announce"
              /\ reminders'[Len(reminders')].state = "waiting"
         ]_vars

\* C9 witness: the process is gone with every reminder scheduled still
\* waiting, never fired.
C9_Witness ==
    /\ pc = "terminated"
    /\ Len(reminders) = MaxReminders
    /\ \A i \in DOMAIN reminders : reminders[i].state = "waiting"

\* ------------------------------------------------------------------ C10
HandlerPcs ==
    { "dispatch", "wiki_ask", "search_ask", "note_content", "note_open",
      "reminder_minutes", "reminder_message", "shutdown_confirm", "restart_confirm" }

\* C10: the loop listens for a command only from its top, which is reached
\* from the greeting, from an empty result of the loop's own listen, or from
\* a handler that has returned; while it listens no handler has been called
\* and nothing was heard since the top of the loop; in every trace the first
\* response heard is the loop's command and comes before the one call, every
\* later one after it; and an empty result at the loop leads back to the top
\* with no handler called.
C10_OneCommandAtATime ==
    /\ [](/\ pc = "listen" => Calls = <<>> /\ HeardIn(trace) = <<>>
          /\ Len(Calls) <= 1
          /\ \A i, j \in DOMAIN trace :
                (trace[i].kind = "heard" /\ trace[j].kind = "call") =>
                    (i < j <=> \A k \in 1..(i - 1) : trace[k].kind # "heard")
          /\ (query # "" /\ HeardIn(trace) # <<>>) => HeardIn(trace)[1].arg = query)
    /\ [][ /\ (pc' = "listen" /\ pc # "listen") => pc = "announce"
           /\ (pc' = "announce" /\ pc # "announce") =>
                \/ pc = "greet"
                \/ pc = "listen" /\ query' = "" /\ EventsOf(trace', "call") = <<>>
                \/ pc \in HandlerPcs /\ Len(EventsOf(trace', "call")) = 1
           /\ (pc = "listen" /\ HeardIn(trace') # <<>> /\ HeardIn(trace')[1].arg = "") =>
                pc' = "announce" /\ EventsOf(trace', "call") = <<>>
           /\ (pc = "listen" /\ HeardIn(trace') # <<>> /\ HeardIn(trace')[1].arg # "") =>
                pc' = "dispatch"
         ]_vars

\* C10 witness: the loop is back at its top after a failed recognition at
\* the loop's listen, with no handler called.
C10_Witness ==
    /\ pc = "announce"
    /\ HeardIn(trace) = <<Ev("heard", "")>>
    /\ SpokeIn(trace, "Sorry, I didn't understand that. Please say it again.")
    /\ Calls = <<>>
    /\ reminders # <<>>

\* ------------------------------------------------------------------ C11
\* s with its first occurrence of old taken out, every other character kept
RECURSIVE RemoveOnce(_, _)
RemoveOnce(s, old) ==
    IF Len(s) < Len(old) THEN s
    ELSE IF SubSeq(s, 1, Len(old)) = old THEN SubSeq(s, Len(old) + 1, Len(s))
    ELSE Char(s, 1) \o RemoveOnce(SubSeq(s, 2, Len(s)), old)

\* s after its leading prefix p
After(s, p) == SubSeq(s, Len(p) + 1, Len(s))

\* the lowercased commands whose rule extracts an argument from the text
ExtractsArgument(t) ==
    \/ FirstMatch(t) \in {"search_wikipedia", "google_search"}
    \/ FirstMatch(t) = "open_website" /\ StartsWith(t, "open ")

\* the argument as the claim words it: the text with the one matched keyword
\* or leading prefix removed, trimmed
ClaimedArgument(t) ==
    IF Contains(t, "wikipedia") THEN Strip(RemoveOnce(t, "wikipedia"))
    ELSE IF StartsWith(t, "open ") THEN Strip(After(t, "open "))
    ELSE IF Contains(t, "search for") THEN Strip(RemoveOnce(t, "search for"))
    ELSE IF StartsWith(t, "search ") THEN Strip(After(t, "search "))
    ELSE IF Contains(t, "google ") THEN Strip(RemoveOnce(t, "google"))
    ELSE IF StartsWith(t, "who is ") THEN Strip(After(t, "who is "))
    ELSE IF StartsWith(t, "what is ") THEN Strip(After(t, "what is "))
    ELSE Strip(After(t, "tell me about "))

\* C11 (the claim): when process_command dispatches a command whose rule
\* extracts an argument, the argument it passes to the handler is the
\* lowercased text with only the matched keyword or prefix removed, trimmed,
\* every other character kept.
C11_ArgumentIsRemainder ==
    (pc = "dispatch" /\ ExtractsArgument(Lower(query))) =>
        Dispatch[query].arg = ClaimedArgument(Lower(query))

\* C11: the examples the claim gives do come out as it says.
C11_Examples ==
    /\ Dispatch["search for rust programming"].arg = "rust programming"
    /\ Dispatch["tell me about the moon"].arg = "the moon"
    /\ Dispatch["open youtube"].arg = "youtube"
    /\ Dispatch["Wikipedia Ada Lovelace"].arg = "ada lovelace"

\* ------------------------------------------------------------------ C12
OpenedUrls == EventsOf(trace, "open_url")

SearchUrl == "https://www.google.com/search?q="

\* the characters of a key, as they stand in a search URL: a space is "+"
RECURSIVE PlusForSpace(_)
PlusForSpace(s) ==
    IF s = "" THEN ""
    ELSE (IF Char(s, 1) = " " THEN "+" ELSE Char(s, 1)) \o PlusForSpace(SubSeq(s, 2, Len(s)))

\* C12: once a command has been dispatched to open_website, the browser has
\* been opened exactly once: on the URL the shortcut table maps the key to
\* when the key is in the table, else on "http://" + key when the key
\* contains ".", else on the web search URL of the key; and nothing else than
\* the browser was touched (no lookup, no file, no OS command, no timer).
C12_OpenWebsiteOnce ==
    Calls = <<Ev("call", "open_website")>> =>
        LET key == Dispatch[query].arg
        IN  /\ Len(OpenedUrls) = 1
            /\ OpenedUrls[1].arg =
                 (IF key \in {"google", "youtube", "github", "gmail"} THEN WEBSITE_MAP[key]
                  ELSE IF Contains(key, ".") THEN "http://" \o key
                  ELSE SearchUrl \o PlusForSpace(key))
            /\ \A i \in DOMAIN trace : trace[i].kind \in {"speak", "heard", "call", "open_url"}
            /\ pc = "announce"

\* C12 witness: "open example.com", a key with a "." that is not in the
\* table, opened http://example.com.
C12_Witness ==
    /\ query = "open example.com"
    /\ Calls = <<Ev("call", "open_website")>>
    /\ OpenedUrls = <<Ev("open_url", "http://example.com")>>

\* C12 (second witness): the shortcut found inside "please open github" opened
\* the URL the table maps "github" to.
C12_ShortcutWitness ==
    /\ query = "please open github"
    /\ OpenedUrls = <<Ev("open_url", "https://github.com")>>

\* ------------------------------------------------------------------ C13
\* the yes/no answer heard by the handler called, once heard: the second
\* response of the window for shutdown and restart, the third for write_note
YesNoAnswer ==
    IF Calls = <<Ev("call", "write_note")>> /\ Len(HeardIn(trace)) = 3
        THEN <<HeardIn(trace)[3].arg>>
    ELSE IF Calls \in {<<Ev("call", "shutdown_system")>>, <<Ev("call", "restart_system")>>}
            /\ Len(HeardIn(trace)) = 2
        THEN <<HeardIn(trace)[2].arg>>
    ELSE <<>>

\* what the handler did on the answer: went on with the shutdown, the
\* restart, or the opening of the notes file
Accepted ==
    \/ SpokeIn(trace, "Shutting down...")
    \/ SpokeIn(trace, "Restarting...")
    \/ EventsOf(trace, "open_file") # <<>>

\* C13 (the claim): in each yes/no sub-dialogue the confirmation is accepted
\* exactly when the lowercased answer contains "yes" or "confirm".
C13_YesOrConfirmAccepted ==
    YesNoAnswer # <<>> => (Accepted <=> SaysYesOrConfirm(YesNoAnswer[1]))

\* C13: the claim does hold of the shutdown and the restart confirmations.
C13_PowerConfirmations ==
    (YesNoAnswer # <<>> /\ Calls # <<Ev("call", "write_note")>>) =>
        (Accepted <=> SaysYesOrConfirm(YesNoAnswer[1]))

\* ------------------------------------------------------------------ C14
\* the handlers that need an argument and ask for it in a sub-dialogue
ArgumentHandlers == { "search_wikipedia", "google_search", "write_note", "set_reminder" }

\* the handler called asked for its argument and the response came out empty
EmptyArgument(handlers) ==
    /\ Len(Calls) = 1 /\ Calls[1].arg \in handlers
    /\ Len(HeardIn(trace)) >= 2
    /\ HeardIn(trace)[2].arg = ""

\* the handler gave up: its last word is a cancellation, it is back in the
\* loop, and it called no adapter, wrote no note and started no timer
Aborted ==
    /\ pc = "announce"
    /\ trace[Len(trace)].kind = "speak" /\ Contains(trace[Len(trace)].arg, "cancel")
    /\ \A i \in DOMAIN trace :
          trace[i].kind \notin {"lookup", "open_url", "write_file", "timer_start"}

\* C14 (the claim): for each of the four handlers, an argument still empty
\* after the handler asked for it makes the handler abort.
C14_EmptyArgumentAborts ==
    EmptyArgument(ArgumentHandlers) => Aborted

\* C14: write_note and set_reminder do abort on an empty argument.
C14_NoteAndReminderAbort ==
    EmptyArgument({"write_note", "set_reminder"}) => Aborted

\* ------------------------------------------------------------------ C15
Raised(tr, exception) == \E i \in DOMAIN tr : tr[i] = Ev("raise", exception)

\* write_note heard a content that is not empty, and writing the file did
\* not itself fail
NoteDictated(tr) ==
    /\ EventsOf(tr, "call") = <<Ev("call", "write_note")>>
    /\ Len(HeardIn(tr)) >= 2 /\ HeardIn(tr)[2].arg # ""
    /\ ~Raised(tr, "OSError")

\* C15 (the claim): whatever notes.json held when write_note ran with a
\* content that is not empty, the note is persisted at the end of the store,
\* "Note saved." is spoken and no exception leaves write_note.
C15_BadStoreDegrades ==
    NoteDictated(trace) =>
        /\ pc # "uncaught"
        /\ SpokeIn(trace, "Note saved.")
        /\ notesFile.kind = "json_list"
        /\ notesFile.items # <<>>
        /\ notesFile.items[Len(notesFile.items)].content = HeardIn(trace)[2].arg

\* C15: a store that is missing, empty or no JSON document does degrade to
\* the empty list: the write leaves a store of exactly the new note.
C15_MissingOrCorruptDegrades ==
    [][ (pc = "note_content" /\ notesFile.kind \in {"missing", "empty", "garbage"}
            /\ NoteDictated(trace')) =>
          /\ pc' = "note_open"
          /\ SpokeIn(trace', "Note saved.")
          /\ notesFile'.kind = "json_list"
          /\ Len(notesFile'.items) = 1
          /\ notesFile'.items[1].content = HeardIn(trace')[2].arg
      ]_vars

\* ------------------------------------------------------------------ C16
\* the delay of a timer in minutes (threading.Timer holds it in seconds)
DelayMinutes(t) == t.interval \div 60

\* C16 (the claim): every reminder scheduled has a delay of at least one
\* minute and a message that is not empty.
C16_PositiveDelay ==
    \A i \in DOMAIN reminders :
        /\ DelayMinutes(reminders[i]) >= 1
        /\ reminders[i].message # ""

\* C16: the message of every reminder scheduled is not empty, and its delay
\* is a whole number of minutes.
C16_MessageNotEmpty ==
    \A i \in DOMAIN reminders :
        /\ reminders[i].message # ""
        /\ reminders[i].interval = 60 * DelayMinutes(reminders[i])

\* ------------------------------------------------------------------ C17
\* every cv2.VideoCapture created in the trace has a cam.release() after it
EveryCameraReleased(tr) ==
    \A i \in DOMAIN tr :
        tr[i].kind = "camera_create" =>
            \E j \in (i + 1)..Len(tr) : tr[j] = Ev("camera_release", tr[i].arg)

\* take_photo was called and has returned
PhotoReturned == Calls = <<Ev("call", "take_photo")>> /\ pc = "announce"

\* C17 (the claim): when take_photo has returned, every camera handle it
\* created has been released, whichever way it returned.
C17_CameraReleased ==
    PhotoReturned => EveryCameraReleased(trace)

\* C17: the handle is released on the paths past the test of isOpened(), the
\* failed capture and the photo taken.
C17_ReleasedOnceOpened ==
    (PhotoReturned /\ ~SpokeIn(trace, "Could not access the camera.")) =>
        EveryCameraReleased(trace)

\* ------------------------------------------------------------------ C18
\* what the main thread does in a step: the events the step adds to the
\* trace, or the whole new trace when the step starts a new window
NewEvents ==
    IF Len(trace') >= Len(trace) /\ SubSeq(trace', 1, Len(trace)) = trace
    THEN SubSeq(trace', Len(trace) + 1, Len(trace'))
    ELSE trace'

\* a Timer thread is inside speak(): between engine.say() of _reminder() and
\* the return of engine.runAndWait()
ReminderInEngine == \E i \in DOMAIN reminders : reminders[i].state = "speaking"

\* C18 (the claim): while the callback of a reminder is inside the speech
\* engine, the main thread does not speak: no step in which the main thread
\* calls speak() happens while a Timer thread is inside speak().
C18_NoConcurrentSpeak ==
    [][ (ReminderInEngine /\ reminders' = reminders) => EventsOf(NewEvents, "speak") = <<>> ]_vars

\* C18: the steps of a Timer thread change that timer alone: they leave the
\* notes file, the main thread and its trace as they are, and read nothing
\* but the timer.
C18_TimerLeavesStoreAlone ==
    [][ reminders' # reminders /\ Len(reminders') = Len(reminders) =>
            /\ notesFile' = notesFile
            /\ saved' = saved
            /\ trace' = trace
            /\ pc' = pc
      ]_vars

\* ------------------------------------------------------------------ C19
Acknowledgment == "Assistant terminated by user. Bye!"

\* C19 (the claim): wherever the interrupt arrives, the run stops with the
\* termination acknowledgment spoken: main() returns, no exception leaves it.
C19_InterruptAcknowledged ==
    Raised(trace, "KeyboardInterrupt") =>
        /\ SpokeIn(trace, Acknowledgment)
        /\ pc = "returned"

\* C19: an interrupt that arrives inside the loop of main(), at the loop's
\* listen or inside the sub-dialogue of a handler, is acknowledged: the
\* acknowledgment is the last thing spoken, main() returns, and nothing is
\* heard after it.
C19_LoopInterruptAcknowledged ==
    [][ /\ (pc \in InLoop /\ Raised(trace', "KeyboardInterrupt")) =>
              /\ pc' = "returned"
              /\ trace'[Len(trace')] = Ev("speak", Acknowledgment)
              /\ HeardIn(trace') = <<>>
        /\ (pc = "returned" /\ Raised(trace, "KeyboardInterrupt")) => pc' \in {"returned", "terminated"}
      ]_vars

\* ------------------------------------------------------------------ C20
SubDialoguePcs ==
    { "wiki_ask", "search_ask", "note_content", "note_open",
      "reminder_message", "reminder_minutes", "shutdown_confirm", "restart_confirm" }

\* the step is a handler hearing the response to its prompt
HearsResponse ==
    /\ pc \in SubDialoguePcs
    /\ Len(HeardIn(trace')) = Len(HeardIn(trace)) + 1

Response == HeardIn(trace')[Len(HeardIn(trace'))].arg

\* C20: in the step in which a handler hears the response to its prompt,
\* whatever the response contains, no handler is called, the command of the
\* window stays the one dispatched, the farewell is not spoken, SystemExit
\* is not raised and main() does not return: the main thread is at the next
\* prompt of the same handler or back at the top of the loop, unless the
\* handler's own lookup or file operation raised. The response is what the
\* handler uses: the topic looked up, the query searched, the content of the
\* note stored at the end of the store, the message of the reminder.
C20_ResponseIsNotACommand ==
    [][ HearsResponse =>
          /\ EventsOf(trace', "call") = EventsOf(trace, "call")
          /\ query' = query
          /\ ~SpokeIn(trace', Farewell)
          /\ ~Raised(trace', "SystemExit")
          /\ \/ pc' \in SubDialoguePcs \cup {"announce"}
             \/ /\ pc' = "uncaught"
                /\ \E e \in {"ConnectionError", "OSError", "AttributeError"} : Raised(trace', e)
          /\ pc = "wiki_ask" => EventsOf(trace', "lookup") = <<Ev("lookup", Response)>>
          /\ pc = "search_ask" =>
                EventsOf(trace', "open_url") = <<Ev("open_url", SearchUrl \o PlusForSpace(Response))>>
          /\ (pc = "note_content" /\ pc' = "note_open") =>
                notesFile'.items[Len(notesFile'.items)].content = Response
          /\ (pc = "reminder_message" /\ pc' = "reminder_minutes") => message' = Response
      ]_vars

\* C20 witness: the content prompt of write_note was answered "exit", the
\* note "exit" is in the store, the question about opening the file was
\* answered, and the main thread is back at the top of the loop.
C20_Witness ==
    /\ pc = "announce"
    /\ Calls = <<Ev("call", "write_note")>>
    /\ Len(HeardIn(trace)) = 3
    /\ HeardIn(trace)[2].arg = "exit"
    /\ HeardIn(trace)[3].arg = "no goodbye"
    /\ notesFile.kind = "json_list"
    /\ notesFile.items[Len(notesFile.items)].content = "exit"
====
